---- MODULE Spec2Model ----
(***************************************************************************)
(* The query-construction engine of src/queries.go: the Query Catalog, the *)
(* pipeline stages (EnsureInputColsPipe, PatchFilterPipe, BuildQueryPipe), *)
(* composePipes and the driving loop QueryApply.                           *)
(*                                                                         *)
(* Statement text is a sequence of tokens: literal text, a named           *)
(* placeholder (":name"), the format verb "%s" and a positional bindvar    *)
(* ("?").  A *QueryContext is an address into heap; a StringMap is a       *)
(* function from column names to values.                                   *)
(*                                                                         *)
(* The second part is the closure-table store the catalog's statements run *)
(* against: the tables Decks and DecksClosure of SETUP_DECKS_TABLE_QUERY   *)
(* (db), with the trigger and the cascading foreign keys, and the          *)
(* statements of CREATE_NEW_DECK_QUERY, ASSOCIATE_DECK_AS_CHILD_QUERY and  *)
(* DECK_CHILDREN_QUERY executed with the arguments QueryApply returns.     *)
(* hist is a history variable: the associate calls executed, the last      *)
(* statement executed and the deck ids used so far.                        *)
(***************************************************************************)
EXTENDS Integers, Sequences, FiniteSets, TLC

VARIABLES heap, inv, st, db, hist

vars == <<heap, inv, st, db, hist>>

(* ------------------------------ bounds --------------------------------- *)

\* value maps hold the values 1..MaxVal
MaxVal == 2

\* a call of QueryApply is given at most MaxMaps value maps
MaxMaps == 2

\* the number of callers
MaxInv == 2

\* the number of columns, and the longest column list, a stage is tried with
MaxStageCols == 2

\* deck ids are 1..MaxDecks: an insert that would need a larger id is not made
MaxDecks == 4

\* at most MaxOps statements are executed against the tables
MaxOps == 6

Vals == 1..MaxVal

Invs == 1..MaxInv

(* ------------------------- statement text ------------------------------ *)

LitTok(s) == [t |-> "lit", s |-> s]

NamedTok(n) == [t |-> "named", s |-> n]

VerbTok == [t |-> "verb", s |-> "%s"]

BindTok == [t |-> "bind", s |-> "?"]

EmptyMap == [c \in {} |-> 0]

\* variant: the assignment replaces the map by one holding the new key only
PutFresh(m, k, v) == [c \in {k} |-> v]

Put(m, k, v) == [c \in (DOMAIN m) \cup {k} |-> IF c = k THEN v ELSE m[c]]

Nil == 0

(* ------------------------------ errors --------------------------------- *)

NoErr == [kind |-> "nil", col |-> "", query |-> <<>>]

MissingColErr(col, query) == [kind |-> "missing required col", col |-> col, query |-> query]

NothingPatchedErr == [kind |-> "nothing patched", col |-> "", query |-> <<>>]

BindErr(name) == [kind |-> "could not find name", col |-> name, query |-> <<>>]

(* ------------------------- pipes and contexts -------------------------- *)

NoPipe == [kind |-> "none", cols |-> <<>>]

NilPipeInput == [kind |-> "nil", tpl |-> <<>>, pipes |-> <<>>, pipe |-> NoPipe, ctx |-> Nil]

\* the value of pipe(ctx, &restPipes): a stage bound to its context and to the
\* stages that follow it
BoundPipe(pipe, ctx, restPipes) ==
    [kind |-> "stage", tpl |-> <<>>, pipes |-> restPipes, pipe |-> pipe, ctx |-> ctx]

QueryContext(query, nameArgs, args) == [query |-> query, nameArgs |-> nameArgs, args |-> args]

\* variant: the context is made once, outside the function returned, so
\* every call of that function returns the same context
MakeCtxMakerShared(baseQuery, h) ==
    [heap |-> IF h = <<>> THEN <<QueryContext(baseQuery, EmptyMap, <<>>)>> ELSE h,
     ctx |-> 1]

\* the function MakeCtxMaker returns, applied to the heap h: a new context
\* holding the template and an empty named-parameter map
MakeCtxMaker(baseQuery, h) ==
    [heap |-> Append(h, QueryContext(baseQuery, EmptyMap, <<>>)),
     ctx |-> Len(h) + 1]

composePipes(baseQuery, pipes) ==
    IF Len(pipes) <= 0
    THEN [kind |-> "noop", tpl |-> <<>>, pipes |-> <<>>, pipe |-> NoPipe, ctx |-> Nil]
    ELSE [kind |-> "composed", tpl |-> baseQuery, pipes |-> pipes, pipe |-> NoPipe, ctx |-> Nil]

\* what a call of a PipeInput returns, with the heap it leaves
Returned(h, ctx, next, err) == [heap |-> h, ctx |-> ctx, next |-> next, err |-> err, panic |-> FALSE]

\* a run-time panic (index out of range) inside a call
Panicked(h) == [heap |-> h, ctx |-> Nil, next |-> NilPipeInput, err |-> NoErr, panic |-> TRUE]

(* ------------------------- EnsureInputColsPipe ------------------------- *)

\* variant: a required column the input map lacks is skipped
RECURSIVE EnsureLoopNoCheck(_, _, _, _)
EnsureLoopNoCheck(required, k, inputMap, nameArgs) ==
    IF k > Len(required)
    THEN [ok |-> TRUE, col |-> "", nameArgs |-> nameArgs]
    ELSE IF required[k] \notin DOMAIN inputMap
         THEN EnsureLoopNoCheck(required, k + 1, inputMap, nameArgs)
         ELSE EnsureLoopNoCheck(required, k + 1, inputMap,
                                Put(nameArgs, required[k], inputMap[required[k]]))

\* variant: every entry of the input map is copied once all required columns
\* are found
RECURSIVE EnsureLoopCopyAll(_, _, _, _)
EnsureLoopCopyAll(required, k, inputMap, nameArgs) ==
    IF k > Len(required)
    THEN [ok |-> TRUE, col |-> "",
          nameArgs |-> [c \in (DOMAIN nameArgs) \cup (DOMAIN inputMap) |->
                          IF c \in DOMAIN inputMap THEN inputMap[c] ELSE nameArgs[c]]]
    ELSE IF required[k] \notin DOMAIN inputMap
         THEN [ok |-> FALSE, col |-> required[k], nameArgs |-> nameArgs]
         ELSE EnsureLoopCopyAll(required, k + 1, inputMap, nameArgs)

\* the loop over required, from its k-th element on: a missing column ends
\* it, with the columns before it already copied
RECURSIVE EnsureLoop(_, _, _, _)
EnsureLoop(required, k, inputMap, nameArgs) ==
    IF k > Len(required)
    THEN [ok |-> TRUE, col |-> "", nameArgs |-> nameArgs]
    ELSE IF required[k] \notin DOMAIN inputMap
         THEN [ok |-> FALSE, col |-> required[k], nameArgs |-> nameArgs]
         ELSE EnsureLoop(required, k + 1, inputMap,
                         Put(nameArgs, required[k], inputMap[required[k]]))

\* args[0] panics when no value map was handed to the stage; (*pipes)[0]
\* panics when no stage follows
EnsureInputColsPipe(required, h, ctx, pipes, args) ==
    IF Len(args) = 0
    THEN Panicked(h)
    ELSE LET r == EnsureLoop(required, 1, args[1], h[ctx].nameArgs)
             h1 == [h EXCEPT ![ctx].nameArgs = r.nameArgs]
         IN  IF ~r.ok
             THEN Returned(h1, Nil, NilPipeInput, MissingColErr(r.col, h[ctx].query))
             ELSE IF Len(pipes) = 0
                  THEN Panicked(h1)
                  ELSE Returned(h1, ctx, BoundPipe(pipes[1], ctx, Tail(pipes)), NoErr)

(* --------------------------- PatchFilterPipe --------------------------- *)

\* fmt.Sprintf("%s = :%s", col, col)
SetString(col) == <<LitTok(col), LitTok("="), NamedTok(col)>>

\* strings.Join(elems, ", ")
RECURSIVE Join(_)
Join(elems) ==
    IF Len(elems) = 0 THEN <<>>
    ELSE IF Len(elems) = 1 THEN elems[1]
    ELSE elems[1] \o <<LitTok(", ")>> \o Join(Tail(elems))

\* fmt.Sprintf(format, operand) with one string operand: the first verb takes
\* the operand, a later verb has none, an operand no verb takes is reported
RECURSIVE SprintfFrom(_, _, _)
SprintfFrom(format, operand, used) ==
    IF Len(format) = 0
    THEN IF used THEN <<>>
         ELSE <<LitTok("%!(EXTRA string=")>> \o operand \o <<LitTok(")")>>
    ELSE IF format[1].t = "verb"
         THEN (IF used THEN <<LitTok("%!s(MISSING)")>> ELSE operand)
              \o SprintfFrom(Tail(format), operand, TRUE)
         ELSE <<format[1]>> \o SprintfFrom(Tail(format), operand, used)

Sprintf(format, operand) == SprintfFrom(format, operand, FALSE)

\* variant: each fragment is put in front of the earlier ones
RECURSIVE PatchLoopPrepend(_, _, _, _, _)
PatchLoopPrepend(whitelist, k, patch, nameArgs, namedSetStrings) ==
    IF k > Len(whitelist)
    THEN [nameArgs |-> nameArgs, namedSetStrings |-> namedSetStrings]
    ELSE IF whitelist[k] \in DOMAIN patch
         THEN PatchLoopPrepend(whitelist, k + 1, patch,
                               Put(nameArgs, whitelist[k], patch[whitelist[k]]),
                               <<SetString(whitelist[k])>> \o namedSetStrings)
         ELSE PatchLoopPrepend(whitelist, k + 1, patch, nameArgs, namedSetStrings)

\* the loop over whitelist, from its k-th element on; patched is
\* Len(namedSetStrings) > 0
RECURSIVE PatchLoop(_, _, _, _, _)
PatchLoop(whitelist, k, patch, nameArgs, namedSetStrings) ==
    IF k > Len(whitelist)
    THEN [nameArgs |-> nameArgs, namedSetStrings |-> namedSetStrings]
    ELSE IF whitelist[k] \in DOMAIN patch
         THEN PatchLoop(whitelist, k + 1, patch,
                        Put(nameArgs, whitelist[k], patch[whitelist[k]]),
                        Append(namedSetStrings, SetString(whitelist[k])))
         ELSE PatchLoop(whitelist, k + 1, patch, nameArgs, namedSetStrings)

\* variant: without the "nothing patched" check
PatchFilterPipeNoCheck(whitelist, h, ctx, pipes, args) ==
    IF Len(args) = 0
    THEN Panicked(h)
    ELSE LET r == PatchLoop(whitelist, 1, args[1], h[ctx].nameArgs, <<>>)
             h1 == [h EXCEPT ![ctx].nameArgs = r.nameArgs]
             h2 == [h1 EXCEPT ![ctx].query = Sprintf(h[ctx].query, Join(r.namedSetStrings))]
         IN  IF Len(pipes) = 0
             THEN Panicked(h2)
             ELSE Returned(h2, ctx, BoundPipe(pipes[1], ctx, Tail(pipes)), NoErr)

PatchFilterPipe(whitelist, h, ctx, pipes, args) ==
    IF Len(args) = 0
    THEN Panicked(h)
    ELSE LET r == PatchLoop(whitelist, 1, args[1], h[ctx].nameArgs, <<>>)
             patched == Len(r.namedSetStrings) > 0
             h1 == [h EXCEPT ![ctx].nameArgs = r.nameArgs]
             h2 == [h1 EXCEPT ![ctx].query = Sprintf(h[ctx].query, Join(r.namedSetStrings))]
         IN  IF ~patched
             THEN Returned(h1, Nil, NilPipeInput, NothingPatchedErr)
             ELSE IF Len(pipes) = 0
                  THEN Panicked(h2)
                  ELSE Returned(h2, ctx, BoundPipe(pipes[1], ctx, Tail(pipes)), NoErr)

(* ---------------------------- BuildQueryPipe --------------------------- *)

\* the names of the named placeholders of a statement, in statement order
Names(query) ==
    LET named == SelectSeq(query, LAMBDA tok : tok.t = "named")
    IN  [k \in 1..Len(named) |-> named[k].s]

\* variant: a name gives one argument, however often it occurs
NamedNoRepeat(query, nameArgs) ==
    LET names == Names(query)
        first == SelectSeq([k \in 1..Len(names) |-> k],
                           LAMBDA k : \A j \in 1..(k - 1) : names[j] /= names[k])
        unbound == SelectSeq(names, LAMBDA n : n \notin DOMAIN nameArgs)
    IN  IF Len(unbound) > 0
        THEN [query |-> <<>>, args |-> <<>>, err |-> BindErr(unbound[1])]
        ELSE [query |-> [k \in 1..Len(query) |->
                            IF query[k].t = "named" THEN BindTok ELSE query[k]],
              args |-> [k \in 1..Len(first) |-> nameArgs[names[first[k]]]],
              err |-> NoErr]

\* sqlx.Named(query, nameArgs) with the default (question mark) bindvar
Named(query, nameArgs) ==
    LET names == Names(query)
        unbound == SelectSeq(names, LAMBDA n : n \notin DOMAIN nameArgs)
    IN  IF Len(unbound) > 0
        THEN [query |-> <<>>, args |-> <<>>, err |-> BindErr(unbound[1])]
        ELSE [query |-> [k \in 1..Len(query) |->
                            IF query[k].t = "named" THEN BindTok ELSE query[k]],
              args |-> [k \in 1..Len(names) |-> nameArgs[names[k]]],
              err |-> NoErr]

\* the stage reads neither the stages after it nor its arguments
BuildQueryPipe(h, ctx, pipes, args) ==
    LET r == Named(h[ctx].query, h[ctx].nameArgs)
    IN  IF r.err /= NoErr
        THEN Returned(h, Nil, NilPipeInput, r.err)
        ELSE Returned([h EXCEPT ![ctx].query = r.query, ![ctx].args = r.args],
                      ctx, NilPipeInput, NoErr)

(* ------------------------------- catalog ------------------------------- *)

EnsureInputCols(required) == [kind |-> "EnsureInputCols", cols |-> required]

PatchFilter(whitelist) == [kind |-> "PatchFilter", cols |-> whitelist]

BuildQuery == [kind |-> "BuildQuery", cols |-> <<>>]

FETCH_CONFIG_SETTING_QUERY ==
    composePipes(
        <<LitTok("SELECT setting, value FROM Config WHERE setting ="),
          NamedTok("setting"), LitTok(";")>>,
        <<EnsureInputCols(<<"setting">>), BuildQuery>>)

SET_CONFIG_SETTING_QUERY ==
    composePipes(
        <<LitTok("INSERT OR REPLACE INTO Config(setting, value) VALUES ("),
          NamedTok("setting"), LitTok(","), NamedTok("value"), LitTok(");")>>,
        <<EnsureInputCols(<<"setting", "value">>), BuildQuery>>)

CREATE_NEW_DECK_QUERY ==
    composePipes(
        <<LitTok("INSERT INTO Decks(name) VALUES ("), NamedTok("name"), LitTok(");")>>,
        <<EnsureInputCols(<<"name">>), BuildQuery>>)

FETCH_DECK_QUERY ==
    composePipes(
        <<LitTok("SELECT deck_id, name FROM Decks WHERE deck_id ="),
          NamedTok("deck_id"), LitTok(";")>>,
        <<EnsureInputCols(<<"deck_id">>), BuildQuery>>)

UPDATE_DECK_QUERY ==
    composePipes(
        <<LitTok("UPDATE Decks SET"), VerbTok,
          LitTok("WHERE deck_id ="), NamedTok("deck_id")>>,
        <<EnsureInputCols(<<"deck_id">>), PatchFilter(<<"name">>), BuildQuery>>)

ASSOCIATE_DECK_AS_CHILD_QUERY ==
    composePipes(
        <<LitTok("INSERT OR IGNORE INTO DecksClosure(ancestor, descendent, depth) SELECT t.ancestor,"),
          NamedTok("child"),
          LitTok(", t.depth+1 FROM DecksClosure AS t WHERE t.descendent ="),
          NamedTok("parent"),
          LitTok("UNION ALL SELECT"), NamedTok("child"), LitTok(","),
          NamedTok("child"), LitTok(", 0;")>>,
        <<EnsureInputCols(<<"parent", "child">>), BuildQuery>>)

DECK_CHILDREN_QUERY ==
    composePipes(
        <<LitTok("SELECT ancestor, descendent, depth FROM DecksClosure WHERE ancestor ="),
          NamedTok("parent"), LitTok("AND depth = 1;")>>,
        <<EnsureInputCols(<<"parent">>), BuildQuery>>)

Catalog ==
    {FETCH_CONFIG_SETTING_QUERY, SET_CONFIG_SETTING_QUERY, CREATE_NEW_DECK_QUERY,
     FETCH_DECK_QUERY, UPDATE_DECK_QUERY, ASSOCIATE_DECK_AS_CHILD_QUERY,
     DECK_CHILDREN_QUERY}

(* ----------------------------- QueryApply ------------------------------ *)

\* pipe(ctx, &restPipes)(args...): the stage a Pipe value stands for
CallPipe(pipe, h, ctx, restPipes, args) ==
    IF pipe.kind = "EnsureInputCols" THEN EnsureInputColsPipe(pipe.cols, h, ctx, restPipes, args)
    ELSE IF pipe.kind = "PatchFilter" THEN PatchFilterPipe(pipe.cols, h, ctx, restPipes, args)
    ELSE BuildQueryPipe(h, ctx, restPipes, args)

\* currentPipe(args...)
CallPipeInput(h, pipeInput, args) ==
    IF pipeInput.kind = "noop"
    THEN Returned(h, Nil, NilPipeInput, NoErr)
    ELSE IF pipeInput.kind = "composed"
    THEN LET made == MakeCtxMaker(pipeInput.tpl, h)
         IN  CallPipe(pipeInput.pipes[1], made.heap, made.ctx, Tail(pipeInput.pipes), args)
    ELSE CallPipe(pipeInput.pipe, h, pipeInput.ctx, pipeInput.pipes, args)

\* the stage a PipeInput runs when called
StageOf(pipeInput) ==
    IF pipeInput.kind = "composed" THEN pipeInput.pipes[1] ELSE pipeInput.pipe

NoRet == [query |-> <<>>, args |-> <<>>, err |-> NoErr, panic |-> FALSE]

Idle ==
    [pc |-> "idle", pipe |-> NilPipeInput, stringmaps |-> <<>>,
     currentPipe |-> NilPipeInput, idx |-> 0, ret |-> NoRet, log |-> <<>>]

\* QueryApply(pipe, stringmaps...) on entry: the var block
Entered(pipe, stringmaps) ==
    [pc |-> "loop", pipe |-> pipe, stringmaps |-> stringmaps,
     currentPipe |-> pipe, idx |-> 0, ret |-> NoRet, log |-> <<>>]

\* variant: without the err check after the call
QueryApplyIterIgnoreErr(h, r) ==
    LET hasMap == r.idx < Len(r.stringmaps)
        args == IF hasMap THEN <<r.stringmaps[r.idx + 1]>> ELSE <<>>
        idx1 == IF hasMap THEN r.idx + 1 ELSE r.idx
        c == CallPipeInput(h, r.currentPipe, args)
        r1 == [r EXCEPT !.idx = idx1,
                        !.currentPipe = c.next,
                        !.log = Append(r.log, [stage |-> StageOf(r.currentPipe).kind,
                                               map |-> IF hasMap THEN idx1 ELSE 0])]
    IN  IF c.panic
        THEN [heap |-> c.heap,
              rec |-> [r1 EXCEPT !.pc = "done", !.ret = [NoRet EXCEPT !.panic = TRUE]]]
        ELSE IF c.next /= NilPipeInput
        THEN [heap |-> c.heap, rec |-> r1]
        ELSE [heap |-> c.heap,
              rec |-> [r1 EXCEPT !.pc = "done",
                                 !.ret = IF c.ctx /= Nil
                                         THEN [NoRet EXCEPT !.query = c.heap[c.ctx].query,
                                                            !.args = c.heap[c.ctx].args]
                                         ELSE NoRet]]

\* one iteration of the loop of QueryApply and, when the loop ends with it,
\* the return that follows; log records the stage run and the index
\* (1-based, 0 for none) of the value map handed to it
QueryApplyIter(h, r) ==
    LET hasMap == r.idx < Len(r.stringmaps)
        args == IF hasMap THEN <<r.stringmaps[r.idx + 1]>> ELSE <<>>
        idx1 == IF hasMap THEN r.idx + 1 ELSE r.idx
        c == CallPipeInput(h, r.currentPipe, args)
        r1 == [r EXCEPT !.idx = idx1,
                        !.currentPipe = c.next,
                        !.log = Append(r.log, [stage |-> StageOf(r.currentPipe).kind,
                                               map |-> IF hasMap THEN idx1 ELSE 0])]
    IN  IF c.panic
        THEN [heap |-> c.heap,
              rec |-> [r1 EXCEPT !.pc = "done", !.ret = [NoRet EXCEPT !.panic = TRUE]]]
        ELSE IF c.err /= NoErr
        THEN [heap |-> c.heap,
              rec |-> [r1 EXCEPT !.pc = "done", !.ret = [NoRet EXCEPT !.err = c.err]]]
        ELSE IF c.next /= NilPipeInput
        THEN [heap |-> c.heap, rec |-> r1]
        ELSE [heap |-> c.heap,
              rec |-> [r1 EXCEPT !.pc = "done",
                                 !.ret = IF c.ctx /= Nil
                                         THEN [NoRet EXCEPT !.query = c.heap[c.ctx].query,
                                                            !.args = c.heap[c.ctx].args]
                                         ELSE NoRet]]

(* ------------------------------- tables -------------------------------- *)

\* a row of DecksClosure
Row(a, d, n) == [ancestor |-> a, descendent |-> d, depth |-> n]

\* the tables after SETUP_DECKS_TABLE_QUERY: Decks maps deck_id to name
EmptyDb == [Decks |-> EmptyMap, DecksClosure |-> {}]

NoOp == [op |-> "none", a |-> Nil, b |-> Nil, ok |-> TRUE, again |-> FALSE, reused |-> FALSE]

NoHist == [calls |-> {}, fresh |-> {}, last |-> NoOp, used |-> {}, ops |-> 0]

(* ------------------------------ harness -------------------------------- *)

\* the columns a catalog entry names in its stages
ColsOf(pipe) ==
    UNION {{pipe.pipes[k].cols[j] : j \in 1..Len(pipe.pipes[k].cols)} : k \in 1..Len(pipe.pipes)}

MapsOver(cols, vals) == UNION {[K -> vals] : K \in SUBSET cols}

TuplesUpTo(n, S) == UNION {[1..k -> S] : k \in 0..n}

NoStage ==
    [pc |-> "off", pipe |-> NoPipe, ctx |-> Nil, pipes |-> <<>>, args |-> <<>>,
     pre |-> QueryContext(<<>>, EmptyMap, <<>>), out |-> Returned(<<>>, Nil, NilPipeInput, NoErr)]

Init ==
    /\ heap = <<>>
    /\ inv = [i \in Invs |-> Idle]
    /\ st = NoStage
    /\ db = EmptyDb
    /\ hist = NoHist

\* a caller calls QueryApply on a catalog entry, with any value maps over the
\* entry's columns; no other call is in progress
Call(i) ==
    /\ \A j \in Invs : inv[j].pc = "idle"
    /\ \E pipe \in Catalog :
         \E stringmaps \in TuplesUpTo(MaxMaps, MapsOver(ColsOf(pipe), Vals)) :
            inv' = [inv EXCEPT ![i] = Entered(pipe, stringmaps)]
    /\ UNCHANGED <<heap, st, db, hist>>

Step(i) ==
    /\ inv[i].pc = "loop"
    /\ LET n == QueryApplyIter(heap, inv[i])
       IN  /\ heap' = n.heap
           /\ inv' = [inv EXCEPT ![i] = n.rec]
    /\ UNCHANGED <<st, db, hist>>

Next == \E i \in Invs : Call(i) \/ Step(i)

Spec == Init /\ [][Next]_vars

(* ------------------- claims on a single QueryApply call ---------------- *)

Succeeded(r) == r.pc = "done" /\ r.ret.err = NoErr /\ ~r.ret.panic

\* invocation i is about to run the stage of the given kind
AtStage(i, kind) == inv[i].pc = "loop" /\ StageOf(inv[i].currentPipe).kind = kind

\* C3: in every run of a catalog entry the finalize stage (BuildQueryPipe) is
\* only reached with every named placeholder of the statement bound in the
\* named-parameter map; so whenever the run succeeds, every placeholder had an
\* entry at the moment finalize ran and the statement returned has no named
\* placeholder left in it.
C3_PlaceholdersBoundAtFinalize ==
    [][\A i \in Invs :
         (AtStage(i, "BuildQuery") /\ inv'[i] /= inv[i]) =>
            LET c == heap[inv[i].currentPipe.ctx]
            IN  /\ \A k \in 1..Len(c.query) :
                      c.query[k].t = "named" => c.query[k].s \in DOMAIN c.nameArgs
                /\ Succeeded(inv'[i]) =>
                      \A k \in 1..Len(inv'[i].ret.query) : inv'[i].ret.query[k].t /= "named"]_vars

C3_Witness ==
    \E i \in Invs :
        /\ Succeeded(inv[i])
        /\ inv[i].pipe = UPDATE_DECK_QUERY
        /\ Len(inv[i].ret.args) = 2

\* C4: a stage that runs after the supplied value maps are used up receives
\* an empty map: a requireColumns stage then ends the run with the
\* missing-column error and a patchFilter stage with "nothing patched"; the
\* run never crashes.
C4_NoMapIsEmptyMap ==
    \A i \in Invs :
        (inv[i].pc = "done" /\ inv[i].log[Len(inv[i].log)].map = 0) =>
            /\ ~inv[i].ret.panic
            /\ inv[i].log[Len(inv[i].log)].stage = "EnsureInputCols"
                  => inv[i].ret.err.kind = "missing required col"
            /\ inv[i].log[Len(inv[i].log)].stage = "PatchFilter"
                  => inv[i].ret.err = NothingPatchedErr

\* C5: when the stage called in an iteration of QueryApply returns an error,
\* the run ends in that iteration and returns that error with empty statement
\* text and no positional arguments; once a run has ended, no stage runs for
\* it again.
C5_StopsOnFirstError ==
    [][\A i \in Invs :
         /\ (inv[i].pc = "loop" /\ inv'[i] /= inv[i]) =>
               LET hasMap == inv[i].idx < Len(inv[i].stringmaps)
                   c == CallPipeInput(heap, inv[i].currentPipe,
                                      IF hasMap THEN <<inv[i].stringmaps[inv[i].idx + 1]>>
                                      ELSE <<>>)
               IN  (~c.panic /\ c.err /= NoErr) =>
                      /\ inv'[i].pc = "done"
                      /\ inv'[i].ret = [query |-> <<>>, args |-> <<>>, err |-> c.err, panic |-> FALSE]
                      /\ Len(inv'[i].log) = Len(inv[i].log) + 1
         /\ inv[i].pc = "done" => inv'[i] = inv[i]]_vars

C5_Witness ==
    \E i \in Invs :
        /\ inv[i].pc = "done"
        /\ inv[i].ret.err = NothingPatchedErr
        /\ Len(inv[i].log) = 2
        /\ Len(inv[i].pipe.pipes) = 3

\* a finished deck-update run that was given a deck_id map and a patch map
\* with no key from the whitelist {name}
UnpatchedUpdate(r) ==
    /\ r.pc = "done"
    /\ r.pipe = UPDATE_DECK_QUERY
    /\ Len(r.stringmaps) >= 2
    /\ "name" \notin DOMAIN r.stringmaps[2]

\* C6 as stated: deck-update with a patch map that has no key from {name}
\* fails with "nothing patched" and returns no statement and no arguments,
\* whatever the deck_id map is.
C6_Original ==
    \A i \in Invs :
        UnpatchedUpdate(inv[i]) =>
            inv[i].ret = [query |-> <<>>, args |-> <<>>, err |-> NothingPatchedErr, panic |-> FALSE]

\* C6 (amended): deck-update with a patch map that has no key from {name}
\* returns an error, no statement and no arguments, whatever the deck_id map
\* is; the error is "nothing patched" when the deck_id map has the key
\* deck_id and the missing-column error for deck_id when it has not.
C6_NothingPatched ==
    \A i \in Invs :
        UnpatchedUpdate(inv[i]) =>
            /\ ~inv[i].ret.panic
            /\ inv[i].ret.query = <<>>
            /\ inv[i].ret.args = <<>>
            /\ inv[i].ret.err =
                  IF "deck_id" \in DOMAIN inv[i].stringmaps[1]
                  THEN NothingPatchedErr
                  ELSE MissingColErr("deck_id", UPDATE_DECK_QUERY.tpl)

C6_Witness ==
    \E i \in Invs :
        /\ UnpatchedUpdate(inv[i])
        /\ "deck_id" \in DOMAIN inv[i].stringmaps[1]
        /\ "deck_id" \in DOMAIN inv[i].stringmaps[2]
        /\ inv[i].ret.err = NothingPatchedErr

\* the number of named placeholders among the first p tokens of a statement
RECURSIVE NamedUpTo(_, _)
NamedUpTo(query, p) ==
    IF p = 0 THEN 0
    ELSE NamedUpTo(query, p - 1) + (IF query[p].t = "named" THEN 1 ELSE 0)

C8_OneMapPerStageInOrder ==
    \A i \in Invs : \A k \in 1..Len(inv[i].log) : inv[i].log[k].map = k


(* ------------------------ concurrent callers --------------------------- *)

\* the run of QueryApply(pipe, stringmaps...) by a caller that is alone,
\* after its first n iterations (or at its end, when that comes earlier)
RECURSIVE AloneAfter(_, _, _)
AloneAfter(pipe, stringmaps, n) ==
    IF n = 0
    THEN [heap |-> <<>>, rec |-> Entered(pipe, stringmaps)]
    ELSE LET before == AloneAfter(pipe, stringmaps, n - 1)
         IN  IF before.rec.pc = "done" THEN before
             ELSE QueryApplyIter(before.heap, before.rec)

\* the value maps invocation i supplies when several callers run at once:
\* one map per stage before the last, each either empty or binding every
\* column of the entry to a value that is i's own
ConcMaps(pipe, i) ==
    [1..(Len(pipe.pipes) - 1) -> {EmptyMap, [c \in ColsOf(pipe) |-> i]}]

ConcCall(i) ==
    /\ inv[i].pc = "idle"
    /\ \E pipe \in Catalog :
         \E stringmaps \in ConcMaps(pipe, i) :
            inv' = [inv EXCEPT ![i] = Entered(pipe, stringmaps)]
    /\ UNCHANGED <<heap, st, db, hist>>

ConcNext == \E i \in Invs : ConcCall(i) \/ Step(i)

ConcSpec == Init /\ [][ConcNext]_vars

\* C10: however the iterations of concurrent QueryApply calls interleave,
\* the calls in progress hold different contexts, the context of each call
\* and the call's own state are what they are after the same number of
\* iterations of the call run alone, and a finished call has returned the
\* statement, arguments or error of the call run alone.
C10_InvocationsIsolated ==
    \A i \in Invs :
        inv[i].pc /= "idle" =>
            LET alone == AloneAfter(inv[i].pipe, inv[i].stringmaps, Len(inv[i].log))
            IN  /\ inv[i].ret = alone.rec.ret
                /\ inv[i].pc = alone.rec.pc
                /\ inv[i].log = alone.rec.log
                /\ inv[i].currentPipe.kind = "stage" =>
                      /\ heap[inv[i].currentPipe.ctx] = alone.heap[alone.rec.currentPipe.ctx]
                      /\ \A j \in Invs \ {i} :
                            inv[j].currentPipe.kind = "stage" =>
                               inv[j].currentPipe.ctx /= inv[i].currentPipe.ctx

C10_Witness ==
    \E i \in Invs : \E j \in Invs \ {i} :
        /\ Succeeded(inv[i])
        /\ Len(inv[i].ret.args) = 2
        /\ inv[j].pipe = inv[i].pipe
        /\ AtStage(j, "BuildQuery")
        /\ inv[j].currentPipe.ctx = 1
        /\ heap[1].nameArgs /= heap[2].nameArgs

(* ----------------------- one stage on its own -------------------------- *)

\* column names for the stage under test
StageColSeq == <<"deck_id", "name", "value", "setting", "parent", "child">>

StageCols == {StageColSeq[k] : k \in 1..MaxStageCols}

\* the required-column lists: every list of at most MaxStageCols columns
StageLists == TuplesUpTo(MaxStageCols, StageCols)

\* the whitelists: the lists that name no column twice
StageWhitelists ==
    {w \in StageLists : \A j, k \in 1..Len(w) : j /= k => w[j] /= w[k]}

\* the value a named parameter holds before the stage runs: one that no
\* value map holds
OldVal == MaxVal + 1

\* a stage of a statically composed chain: a context that earlier stages may
\* have written to, a value map, and at least one stage after it
StageInit ==
    /\ inv = [i \in Invs |-> Idle]
    /\ db = EmptyDb
    /\ hist = NoHist
    /\ \E pipe \in {EnsureInputCols(r) : r \in StageLists}
                      \cup {PatchFilter(w) : w \in StageWhitelists} :
         \E inputMap \in MapsOver(StageCols, Vals) :
            \E nameArgs \in MapsOver(StageCols, {OldVal}) :
               LET c == QueryContext(UPDATE_DECK_QUERY.tpl, nameArgs, <<>>)
               IN  /\ heap = <<c>>
                   /\ st = [NoStage EXCEPT !.pc = "ready", !.pipe = pipe, !.ctx = 1,
                                           !.pipes = <<BuildQuery>>,
                                           !.args = <<inputMap>>, !.pre = c]

\* pipe(ctx, &restPipes)(args...)
ApplyStage ==
    /\ st.pc = "ready"
    /\ LET out == CallPipe(st.pipe, heap, st.ctx, st.pipes, st.args)
       IN  /\ heap' = out.heap
           /\ st' = [st EXCEPT !.pc = "applied", !.out = out]
    /\ UNCHANGED <<inv, db, hist>>

StageNext == ApplyStage

StageSpec == StageInit /\ [][StageNext]_vars

Applied(kind) == st.pc = "applied" /\ st.pipe.kind = kind

StageSucceeded == ~st.out.panic /\ st.out.err = NoErr

Range(seq) == {seq[k] : k \in 1..Len(seq)}

\* C1: EnsureInputColsPipe(R) applied to the input map M succeeds (returns
\* the context, the next stage and no error) if and only if every name in R
\* is a key of M; when it succeeds on a context whose named-parameter map
\* was empty, that map then has exactly the names in R as keys, each with
\* the value M gives it.
C1_RequireColumns ==
    Applied("EnsureInputCols") =>
        LET R == Range(st.pipe.cols)
            M == st.args[1]
        IN  /\ ~st.out.panic
            /\ StageSucceeded <=> R \subseteq DOMAIN M
            /\ StageSucceeded =>
                  /\ st.out.ctx = st.ctx
                  /\ st.out.next = BoundPipe(BuildQuery, st.ctx, <<>>)
            /\ (StageSucceeded /\ st.pre.nameArgs = EmptyMap) =>
                  /\ DOMAIN heap[st.ctx].nameArgs = R
                  /\ \A c \in R : heap[st.ctx].nameArgs[c] = M[c]

C1_Witness ==
    /\ Applied("EnsureInputCols")
    /\ StageSucceeded
    /\ st.pre.nameArgs = EmptyMap
    /\ st.pipe.cols = <<"name">>
    /\ DOMAIN st.args[1] = {"deck_id", "name"}
    /\ DOMAIN heap[st.ctx].nameArgs = {"name"}

C9_NoCopyBeforeMissing ==
    (Applied("EnsureInputCols") /\ st.out.err.kind = "missing required col") =>
        heap[st.ctx].nameArgs = st.pre.nameArgs

(* ------------------------- the closure-table store --------------------- *)

DeckIds == 1..MaxDecks

\* what QueryApply(pipe, stringmap) returns
Statement(pipe, stringmap) ==
    AloneAfter(pipe, <<stringmap>>, Len(pipe.pipes)).rec.ret

\* the name every deck is created with
DeckName == "deck"

HasKey(rows, a, d) == \E r \in rows : r.ancestor = a /\ r.descendent = d

\* variant: INSERT OR REPLACE, a row with the key of a new row gives way to it
InsertOrReplace(table, left, right) ==
    LET t1 == {r \in table : ~HasKey(left, r.ancestor, r.descendent)} \cup left
    IN  {r \in t1 : ~HasKey(right, r.ancestor, r.descendent)} \cup right

\* INSERT OR IGNORE INTO DecksClosure of the rows of a compound SELECT, the
\* rows of its left part before those of its right part: a row whose primary
\* key (ancestor, descendent) is in the table already is skipped.  The rows
\* of each part differ in their keys.
InsertOrIgnore(table, left, right) ==
    LET t1 == table \cup {r \in left : ~HasKey(table, r.ancestor, r.descendent)}
    IN  t1 \cup {r \in right : ~HasKey(t1, r.ancestor, r.descendent)}

\* FOREIGN KEY (ancestor), (descendent) REFERENCES Decks(deck_id), with
\* foreign_keys=ON: a statement that leaves a row without its deck fails
ForeignKeysHold(decks, rows) ==
    \A r \in rows : r.ancestor \in DOMAIN decks /\ r.descendent \in DOMAIN decks

Max(S) == CHOOSE x \in S : \A y \in S : y <= x

\* the rowid SQLite gives a new row of Decks: one more than the largest in use
NewDeckId(decks) == IF DOMAIN decks = {} THEN 1 ELSE Max(DOMAIN decks) + 1

\* variant: without the trigger decks_closure_new_deck
CreateDeckExecNoTrigger(d, args) ==
    [d EXCEPT !.Decks = Put(d.Decks, NewDeckId(d.Decks), args[1])]

\* INSERT INTO Decks(name) VALUES (?), and the trigger decks_closure_new_deck
CreateDeckExec(d, args) ==
    LET id == NewDeckId(d.Decks)
    IN  [Decks |-> Put(d.Decks, id, args[1]),
         DecksClosure |-> InsertOrIgnore(d.DecksClosure, {Row(id, id, 0)}, {})]

\* variant: only the rows whose ancestor is the deleted deck go with it
DeleteDeckExecAncestorOnly(d, id) ==
    [Decks |-> [k \in (DOMAIN d.Decks) \ {id} |-> d.Decks[k]],
     DecksClosure |-> {r \in d.DecksClosure : r.ancestor /= id}]

\* variant: foreign keys are not enforced, no row of DecksClosure goes
DeleteDeckExecNoCascade(d, id) ==
    [d EXCEPT !.Decks = [k \in (DOMAIN d.Decks) \ {id} |-> d.Decks[k]]]

\* the row id of Decks is deleted: ON DELETE CASCADE on both foreign keys
DeleteDeckExec(d, id) ==
    [Decks |-> [k \in (DOMAIN d.Decks) \ {id} |-> d.Decks[k]],
     DecksClosure |-> {r \in d.DecksClosure : r.ancestor /= id /\ r.descendent /= id}]

\* variant: the rows of the child's descendants are derived too
AssociateRowsSubtree(rows, args) ==
    {Row(t.ancestor, u.descendent, t.depth + u.depth + 1) :
        <<t, u>> \in {r \in rows : r.descendent = args[2]}
                     \X {r \in rows : r.ancestor = args[1]}}

\* variant: only the row of the pair (parent, child) is derived
AssociateRowsDirectOnly(rows, args) ==
    {Row(t.ancestor, args[1], t.depth + 1) :
        t \in {r \in rows : r.descendent = args[2] /\ r.ancestor = args[2]}}

\* variant: the depth of the ancestor's row is taken as it is, without + 1
AssociateRowsSameDepth(rows, args) ==
    {Row(t.ancestor, args[1], t.depth) : t \in {r \in rows : r.descendent = args[2]}}

\* SELECT t.ancestor, ?, t.depth+1 FROM DecksClosure AS t WHERE t.descendent = ?
AssociateRows(rows, args) ==
    {Row(t.ancestor, args[1], t.depth + 1) : t \in {r \in rows : r.descendent = args[2]}}

\* the statement of ASSOCIATE_DECK_AS_CHILD_QUERY with its four arguments;
\* ok is FALSE, and the tables are as before, when a foreign key fails
AssociateExec(d, args) ==
    LET rows == InsertOrIgnore(d.DecksClosure,
                               AssociateRows(d.DecksClosure, args),
                               {Row(args[3], args[4], 0)})
    IN  IF ForeignKeysHold(d.Decks, rows \ d.DecksClosure)
        THEN [db |-> [d EXCEPT !.DecksClosure = rows], ok |-> TRUE]
        ELSE [db |-> d, ok |-> FALSE]

\* variant: without the condition depth = 1, every descendant is returned
ChildrenExecAllDescendants(d, args) ==
    {r \in d.DecksClosure : r.ancestor = args[1] /\ r.depth >= 1}

\* the rows the statement of DECK_CHILDREN_QUERY returns
ChildrenExec(d, args) ==
    {r \in d.DecksClosure : r.ancestor = args[1] /\ r.depth = 1}

\* associate-as-child(parent, child): the statement QueryApply builds, executed
AssociateAsChild(d, parent, child) ==
    AssociateExec(d, Statement(ASSOCIATE_DECK_AS_CHILD_QUERY,
                               [c \in {"parent", "child"} |->
                                  IF c = "parent" THEN parent ELSE child]).args)

\* fetch-children(parent)
FetchChildren(d, parent) ==
    ChildrenExec(d, Statement(DECK_CHILDREN_QUERY, [c \in {"parent"} |-> parent]).args)

CreateDeck ==
    /\ hist.ops < MaxOps
    /\ NewDeckId(db.Decks) <= MaxDecks
    /\ db' = CreateDeckExec(db, Statement(CREATE_NEW_DECK_QUERY,
                                          [c \in {"name"} |-> DeckName]).args)
    /\ hist' = [hist EXCEPT
                  !.last = [NoOp EXCEPT !.op = "create", !.a = NewDeckId(db.Decks),
                                        !.reused = NewDeckId(db.Decks) \in hist.used],
                  !.used = hist.used \cup {NewDeckId(db.Decks)},
                  !.ops = hist.ops + 1]
    /\ UNCHANGED <<heap, inv, st>>

\* any parent and child, decks or not
Associate(parent, child) ==
    /\ hist.ops < MaxOps
    /\ LET r == AssociateAsChild(db, parent, child)
       IN  /\ db' = r.db
           /\ hist' = [hist EXCEPT
                         !.last = [NoOp EXCEPT !.op = "associate", !.a = parent,
                                               !.b = child, !.ok = r.ok,
                                               !.again = /\ hist.last.op = "associate"
                                                         /\ hist.last.a = parent
                                                         /\ hist.last.b = child],
                         !.ops = hist.ops + 1]
    /\ UNCHANGED <<heap, inv, st>>

DeleteDeck(id) ==
    /\ hist.ops < MaxOps
    /\ id \in DOMAIN db.Decks
    /\ db' = DeleteDeckExec(db, id)
    /\ hist' = [hist EXCEPT !.last = [NoOp EXCEPT !.op = "delete", !.a = id],
                            !.ops = hist.ops + 1]
    /\ UNCHANGED <<heap, inv, st>>

ClosureNext ==
    \/ CreateDeck
    \/ \E parent, child \in DeckIds : Associate(parent, child)
    \/ \E id \in DeckIds : DeleteDeck(id)

ClosureSpec == Init /\ [][ClosureNext]_vars

\* associate-as-child(parent, child) on two decks, the call recorded: calls
\* holds the pairs associated so far, fresh those associated when
\* DecksClosure held no row of the pair
AssociateDecks(parent, child) ==
    /\ hist.ops < MaxOps
    /\ parent \in DOMAIN db.Decks
    /\ child \in DOMAIN db.Decks
    /\ LET r == AssociateAsChild(db, parent, child)
       IN  /\ db' = r.db
           /\ hist' = [hist EXCEPT
                         !.calls = hist.calls \cup {<<parent, child>>},
                         !.fresh = IF HasKey(db.DecksClosure, parent, child)
                                   THEN hist.fresh
                                   ELSE hist.fresh \cup {<<parent, child>>},
                         !.last = [NoOp EXCEPT !.op = "associate", !.a = parent,
                                               !.b = child, !.ok = r.ok],
                         !.ops = hist.ops + 1]
    /\ UNCHANGED <<heap, inv, st>>

\* decks are created and associated, in any order, and none is deleted
GrowNext ==
    \/ CreateDeck
    \/ \E parent, child \in DeckIds : AssociateDecks(parent, child)

GrowSpec == Init /\ [][GrowNext]_vars

\* the pairs (a, d) with a sequence of n associations leading from a to d
RECURSIVE PathPairs(_, _, _)
PathPairs(decks, edges, n) ==
    IF n = 0
    THEN {<<d, d>> : d \in decks}
    ELSE {<<p[1], e[2]>> : <<p, e>> \in
             {q \in PathPairs(decks, edges, n - 1) \X edges : q[1][2] = q[2][1]}}

\* the rows of the ancestors of deck d are those of the associations made
AncestorsComplete(d) ==
    \A n \in 0..MaxDecks : \A p \in PathPairs(DOMAIN db.Decks, hist.calls, n) :
        p[2] = d => HasKey(db.DecksClosure, p[1], d)

\* the call is one of a top-down order: a new edge from a parent whose rows
\* are complete to another deck that has no descendant yet
TopDown(parent, child) ==
    /\ parent /= child
    /\ <<parent, child>> \notin hist.calls
    /\ AncestorsComplete(parent)
    /\ \A r \in db.DecksClosure : r.ancestor = child => r.descendent = child

AssociateTopDown(parent, child) ==
    /\ TopDown(parent, child)
    /\ AssociateDecks(parent, child)

TopDownNext ==
    \/ CreateDeck
    \/ \E parent, child \in DeckIds : AssociateTopDown(parent, child)

TopDownSpec == Init /\ [][TopDownNext]_vars

(* -------------------- claims on the closure-table store ---------------- *)

\* the step executes a statement against the tables
Executes(op) == hist'.ops /= hist.ops /\ hist'.last.op = op

\* C12: in every state reached by deck creations, associate-as-child calls
\* and deck deletions, every deck d of Decks has the row (d, d, 0) in
\* DecksClosure.
C12_SelfRowOfEveryDeck ==
    \A d \in DOMAIN db.Decks : Row(d, d, 0) \in db.DecksClosure

C12_Witness ==
    /\ hist.last.op = "associate"
    /\ hist.last.a = hist.last.b
    /\ hist.last.ok
    /\ hist.used /= DOMAIN db.Decks
    /\ Cardinality(DOMAIN db.Decks) = 2

\* C14: in every reachable state of the tables and for every parent and
\* child, executing associate-as-child(parent, child) twice in a row leaves
\* the tables as executing it once does.
C14_AssociateIdempotent ==
    \A parent, child \in DeckIds :
        LET once == AssociateAsChild(db, parent, child).db
        IN  AssociateAsChild(once, parent, child).db = once

C14_Witness ==
    /\ hist.last.op = "associate"
    /\ hist.last.again
    /\ hist.last.ok
    /\ hist.last.a /= hist.last.b
    /\ \E r \in db.DecksClosure : r.descendent = hist.last.b /\ r.depth = 2

\* C16: right after a deck is created, whatever creations, associations and
\* deletions came before and also when its id was used by a deleted deck,
\* fetch-children on its id returns no row, and the rows of DecksClosure
\* with ancestor = descendent = its id are the one row of depth 0.
C16_NewDeckHasOnlySelfRow ==
    [][Executes("create") =>
         LET id == hist'.last.a
         IN  /\ FetchChildren(db', id) = {}
             /\ {r \in db'.DecksClosure : r.ancestor = id /\ r.descendent = id}
                   = {Row(id, id, 0)}]_vars

C16_Witness ==
    /\ hist.last.op = "create"
    /\ hist.last.reused
    /\ \E r \in db.DecksClosure : r.depth = 1
    /\ FetchChildren(db, hist.last.a) = {}

\* C17: deleting a deck d removes exactly the rows of DecksClosure whose
\* ancestor or descendent is d, every other row stays as it is; and in every
\* reachable state each row of DecksClosure refers to decks of Decks only.
C17_DeleteCascades ==
    [][/\ Executes("delete") =>
             db'.DecksClosure = {r \in db.DecksClosure :
                                    r.ancestor /= hist'.last.a /\ r.descendent /= hist'.last.a}
       /\ ForeignKeysHold(db.Decks, db.DecksClosure)
       /\ ForeignKeysHold(db'.Decks, db'.DecksClosure)]_vars

C17_Witness ==
    /\ hist.last.op = "delete"
    /\ hist.last.a = 2
    /\ Row(1, 3, 2) \in db.DecksClosure
    /\ ~HasKey(db.DecksClosure, 1, 2)

\* C19: associate-as-child changes and removes no row of DecksClosure: every
\* row of the table before the call is a row of the table after it, also
\* when the call derives another depth for the pair of an existing row.
C19_AssociateKeepsRows ==
    [][Executes("associate") => db.DecksClosure \subseteq db'.DecksClosure]_vars

C19_Witness ==
    /\ hist.last.op = "associate"
    /\ hist.last.ok
    /\ hist.last.a = 1
    /\ hist.last.b = 3
    /\ Row(1, 3, 2) \in db.DecksClosure

\* C20: associate-as-child(parent, child) inserts only rows whose descendent
\* is child: the rows with another descendent, those of the descendants of
\* child among them, are the same after the call as before.
C20_OnlyRowsOfChild ==
    [][Executes("associate") =>
         {r \in db'.DecksClosure : r.descendent /= hist'.last.b}
            = {r \in db.DecksClosure : r.descendent /= hist'.last.b}]_vars

C20_Witness ==
    /\ hist.last.op = "associate"
    /\ hist.last.ok
    /\ hist.last.a = 1
    /\ hist.last.b = 2
    /\ Row(1, 2, 1) \in db.DecksClosure
    /\ Row(2, 3, 1) \in db.DecksClosure
    /\ ~HasKey(db.DecksClosure, 1, 3)

(* ---------------------- claims on the query context -------------------- *)

\* C18: within one pipeline invocation the positional-argument list of the
\* context is empty in every state before the finalize stage runs (it is
\* empty when the context is made and only a step that runs BuildQueryPipe
\* leaves it non-empty), and the key set of the named-parameter map after a
\* stage is a superset of its key set before that stage.
C18_ArgsEmptyKeysGrow ==
    [][\A a \in DOMAIN heap' :
         /\ heap'[a].args /= <<>> => \E i \in Invs : AtStage(i, "BuildQuery")
         /\ a \in DOMAIN heap =>
               DOMAIN heap[a].nameArgs \subseteq DOMAIN heap'[a].nameArgs]_vars

C18_Witness ==
    \E i \in Invs :
        /\ AtStage(i, "BuildQuery")
        /\ inv[i].currentPipe.ctx \in DOMAIN heap
        /\ Cardinality(DOMAIN heap[inv[i].currentPipe.ctx].nameArgs) = 2
        /\ heap[inv[i].currentPipe.ctx].args = <<>>
        /\ Len(inv[i].log) = 2

(* ------------------ claims on the recorded associations ---------------- *)

\* the transitive closure of the associations made, with the self-edge of
\* every deck: a row for every length of a path
PathClosure ==
    UNION {{Row(p[1], p[2], n) : p \in PathPairs(DOMAIN db.Decks, hist.calls, n)} :
              n \in 0..MaxDecks}

\* the same with the length of the shortest path only
ShortestPathClosure ==
    {r \in PathClosure :
        \A q \in PathClosure :
            (q.ancestor = r.ancestor /\ q.descendent = r.descendent) => r.depth <= q.depth}

Parents(d) == {e[1] : e \in {c \in hist.calls : c[2] = d}}

\* C11, as stated: after associations made top-down, each a new edge,
\* DecksClosure equals the transitive closure with path-length depths
\* (whether every path length or the shortest is meant) of the associations
\* made and the self-edges.
C11_Original ==
    \/ db.DecksClosure = PathClosure
    \/ db.DecksClosure = ShortestPathClosure

\* C11, amended: after associations made top-down, each a new edge,
\* DecksClosure has a row for exactly the pairs the transitive closure
\* relates, each with the length of one of the paths between the two; it
\* equals the transitive closure when no deck has two parents.
C11_ClosureOfTopDownAssociations ==
    /\ {<<r.ancestor, r.descendent>> : r \in db.DecksClosure}
          = {<<r.ancestor, r.descendent>> : r \in PathClosure}
    /\ db.DecksClosure \subseteq PathClosure
    /\ (\A d \in DOMAIN db.Decks : Cardinality(Parents(d)) <= 1)
          => db.DecksClosure = PathClosure

C11_Witness ==
    /\ hist.calls = {<<1, 2>>, <<2, 3>>, <<1, 3>>}
    /\ Row(1, 3, 2) \in db.DecksClosure
    /\ Row(1, 3, 1) \in PathClosure

\* the sequences of distinct decks
Chains == {s \in UNION {[1..k -> DeckIds] : k \in 2..MaxDecks} :
              \A i, j \in DOMAIN s : i /= j => s[i] /= s[j]}

\* C13: when the associations made, top-down, are those of a chain of k
\* edges from a deck A to a deck Z and no other, DecksClosure has the row
\* (A, Z, k); with k = 2: after associate-as-child(A, B) and then
\* associate-as-child(B, C) it has (A, C, 2).
C13_ChainDepth ==
    \A s \in Chains :
        hist.calls = {<<s[i], s[i + 1]>> : i \in 1..(Len(s) - 1)}
            => Row(s[1], s[Len(s)], Len(s) - 1) \in db.DecksClosure

C13_Witness ==
    /\ hist.calls = {<<3, 1>>, <<1, 2>>}
    /\ hist.last.a = 1
    /\ Row(3, 2, 2) \in db.DecksClosure

\* C15, as stated: after deck creations and associations, fetch-children(p)
\* returns the row (p, c, 1) exactly for the decks c for which
\* associate-as-child(p, c) has been executed.
C15_Original ==
    \A p \in DOMAIN db.Decks :
        FetchChildren(db, p) = {Row(p, c, 1) : c \in {x \in DeckIds : <<p, x>> \in hist.calls}}

\* C15, amended: after deck creations and associations, fetch-children(p)
\* returns the row (p, c, 1) exactly for the decks c for which
\* associate-as-child(p, c) has been executed in a state where DecksClosure
\* had no row of the pair (p, c).
C15_ChildrenAreFreshAssociations ==
    \A p \in DOMAIN db.Decks :
        FetchChildren(db, p) = {Row(p, c, 1) : c \in {x \in DeckIds : <<p, x>> \in hist.fresh}}

C15_Witness ==
    /\ <<1, 3>> \in hist.calls \ hist.fresh
    /\ Row(1, 3, 2) \in db.DecksClosure
    /\ FetchChildren(db, 1) = {Row(1, 2, 1)}

(* ------------------------ claims on the depths ------------------------- *)

\* C21: in every state reached by deck creations, associate-as-child calls
\* with any arguments (parent = child and associations that close a cycle
\* among them) and deck deletions, a row of DecksClosure has depth 0 if and
\* only if its ancestor is its descendent.
C21_DepthZeroIffSelf ==
    \A r \in db.DecksClosure : (r.depth = 0) <=> (r.ancestor = r.descendent)

C21_Witness ==
    /\ hist.last.op = "associate"
    /\ hist.last.a = hist.last.b
    /\ hist.last.ok
    /\ Row(1, 2, 1) \in db.DecksClosure
    /\ Row(2, 1, 1) \in db.DecksClosure
    /\ Row(1, 1, 0) \in db.DecksClosure

====
